---- MODULE Spec2Model ----
(***************************************************************************)
(* Replay engine of the HELLDIVERS 2 StreamController plugin (src/main.py). *)
(*                                                                         *)
(* Every button press runs on_key_down on a host thread.  The handler is   *)
(* split at each access to state shared between threads: plugin.executing, *)
(* plugin.hero_mode, the plugin settings and the uinput device.  A         *)
(* sleep(key_delay) touches no shared state and is folded into the step    *)
(* before it.                                                              *)
(***************************************************************************)
EXTENDS Integers, Sequences, FiniteSets, TLC

\* ---------------------------------------------------------------- bounds
MaxLen == 2            \* longest custom sequence stored at start-up

\* ------------------------------------------------------------- constants
DEFAULT_KEY_DELAY == 3                   \* hundredths of a second (0.03)
DEFAULT_MODIFIER_KEY == "KEY_LEFTCTRL"
DEFAULT_HOLD_MODIFIER == TRUE

DIRECTION_KEYS == {"UP", "DOWN", "LEFT", "RIGHT"}

\* evdev key codes of the names the plugin looks up (ecodes.ecodes)
ecodes ==
  [n \in {"KEY_UP", "KEY_DOWN", "KEY_LEFT", "KEY_RIGHT",
          "KEY_LEFTCTRL", "KEY_RIGHTCTRL", "KEY_LEFTALT",
          "KEY_RIGHTALT", "KEY_LEFTSHIFT", "KEY_RIGHTSHIFT"} |->
     CASE n = "KEY_UP"         -> 103
       [] n = "KEY_DOWN"       -> 108
       [] n = "KEY_LEFT"       -> 105
       [] n = "KEY_RIGHT"      -> 106
       [] n = "KEY_LEFTCTRL"   -> 29
       [] n = "KEY_RIGHTCTRL"  -> 97
       [] n = "KEY_LEFTALT"    -> 56
       [] n = "KEY_RIGHTALT"   -> 100
       [] n = "KEY_LEFTSHIFT"  -> 42
       [] n = "KEY_RIGHTSHIFT" -> 54]

\* f"KEY_{key}" for the tokens that name a key; any other token has no code
KeyName(tok) ==
  CASE tok = "UP"    -> "KEY_UP"
    [] tok = "DOWN"  -> "KEY_DOWN"
    [] tok = "LEFT"  -> "KEY_LEFT"
    [] tok = "RIGHT" -> "KEY_RIGHT"
    [] OTHER         -> "KEY_?"

\* ecodes.ecodes.get(modifier_key, ecodes.KEY_LEFTCTRL)
ModifierCode(name) ==
  IF name \in DOMAIN ecodes THEN ecodes[name] ELSE ecodes["KEY_LEFTCTRL"]

\* The two button instances whose handlers run concurrently.
Buttons == {"stratagem", "custom"}

\* stratagems.json as loaded by init_stratagems
stratagems ==
  [k \in {"A", "B"} |->
     IF k = "A" THEN <<"UP", "UP", "DOWN">> ELSE <<"LEFT", "FOO">>]

\* action ids a StratagemButton may have been created with
StratagemIds == {"A", "B", "Gone"}

\* the direction buttons of the editor, left to right (build_ui)
DirectionAt(i) ==
  CASE i % 4 = 1 -> "UP"
    [] i % 4 = 2 -> "DOWN"
    [] i % 4 = 3 -> "LEFT"
    [] OTHER     -> "RIGHT"

\* sequences the editor can have stored for the custom button: the first m
\* direction buttons clicked in turn, m <= n
SeqsUpTo(n) == {[i \in 1..m |-> DirectionAt(i)] : m \in 0..n}

KeyDelayChoices == {1, 20}
ModifierChoices == {"KEY_LEFTCTRL", "KEY_LEFTALT"}

\* events received by the uinput device
Write(code, value) == [op |-> "write", code |-> code, value |-> value]
Syn == [op |-> "syn", code |-> 0, value |-> 0]

VARIABLES
  ui,                \* plugin.ui: "UInput" or "None"
  executing,         \* plugin.executing
  hero_mode,         \* plugin.hero_mode
  settings,          \* plugin settings (a dict, keys absent until saved)
  stratagem,         \* StratagemButton.stratagem
  custom_sequence,   \* settings["sequence"] of the custom button
  pc,                \* position of each handler
  sequence,          \* the sequence the running call replays
  idx,               \* position of the for loop in the sequence
  modifier_pressed,  \* local of on_key_down
  key_delay,         \* local of on_key_down
  modifier_key,      \* local of on_key_down
  hold_modifier,     \* local of on_key_down
  modifier_code,     \* local of on_key_down
  out,               \* events the current/last call of a button wrote
  fault,             \* exceptions raised inside the current/last call
  result,            \* how the last call of a button ended
  hero_seen,         \* values of hero_mode the current call has read
  sink,              \* the calls that wrote the device's event stream, in
                     \* order, consecutive events of one call counted once
  calls,             \* number of on_key_down calls each button has started
  cfg_seen,          \* settings states stored while a call reads its settings
  writes,            \* number of _save_setting calls made
  dictionary,        \* StratagemValidator.stratagems, in the order of the file
  sequence_lookup,   \* StratagemValidator.sequence_lookup
  current_sequence,  \* StratagemValidator.current_sequence
  validator_modifier_key,    \* StratagemValidator.modifier_key
  modifier_held,             \* StratagemValidator.modifier_held
  modifier_pressed_at_start, \* StratagemValidator.modifier_pressed_at_start
  modifier_released_during,  \* StratagemValidator.modifier_released_during
  keys_with_modifier,        \* StratagemValidator.keys_with_modifier
  keys_without_modifier,     \* StratagemValidator.keys_without_modifier
  result_label,      \* text of result_label
  partial_label,     \* text of partial_label
  modifier_label,    \* text of modifier_label
  modifier_mode_label,       \* text of modifier_mode_label
  event,             \* the key event the validator handled last
  json_file,         \* the entries of stratagems.json the update tool reads
  errors,            \* the list validate_sequences returned
  validated          \* validate_sequences has returned

vars == <<ui, executing, hero_mode, settings, stratagem, custom_sequence,
          pc, sequence, idx, modifier_pressed, key_delay, modifier_key,
          hold_modifier, modifier_code, out, fault, result, hero_seen,
          sink, calls, cfg_seen, writes,
          dictionary, sequence_lookup, current_sequence,
          validator_modifier_key, modifier_held, modifier_pressed_at_start,
          modifier_released_during, keys_with_modifier, keys_without_modifier,
          result_label, partial_label, modifier_label, modifier_mode_label,
          event, json_file, errors, validated>>

\* the validator window of test_stratagems.py
validator == <<dictionary, sequence_lookup, current_sequence,
               validator_modifier_key, modifier_held,
               modifier_pressed_at_start, modifier_released_during,
               keys_with_modifier, keys_without_modifier,
               result_label, partial_label, modifier_label,
               modifier_mode_label, event>>

\* the record of a run kept for the properties of the trace and of the settings
observed == <<sink, calls, cfg_seen, writes>>

shared == <<ui, executing, hero_mode, settings, stratagem, custom_sequence>>
locals == <<sequence, idx, modifier_pressed, key_delay, modifier_key,
            hold_modifier, modifier_code>>

\* variant: a stored value that is false or zero is taken for a missing one
SettingFalsyDefault(key, default) ==
  IF /\ key \in DOMAIN settings
     /\ key = "hold_modifier" => settings[key] = TRUE
     /\ key = "key_delay" => settings[key] # 0
    THEN settings[key]
    ELSE default

\* settings.get(key, default) on the dict get_settings() returns
Setting(key, default) ==
  IF key \in DOMAIN settings THEN settings[key] ELSE default

\* StratagemButton.__init__: plugin.stratagems.get(key), [] when it is None
StratagemOf(id) ==
  IF id \in DOMAIN stratagems THEN stratagems[id] ELSE <<>>

NoSettings == [k \in {} |-> 0]

\* the update tool (update/stratagems.py)
updater == <<json_file, errors, validated>>

\* the update tool is not run
NoUpdate == json_file = <<>> /\ errors = <<>> /\ validated = FALSE

\* ------------------------------------------- the validator's constants
\* test_stratagems.py, KEY_TO_DIRECTION
KEY_TO_DIRECTION ==
  [k \in {"Up", "Down", "Left", "Right"} |->
     CASE k = "Up" -> "UP" [] k = "Down" -> "DOWN"
       [] k = "Left" -> "LEFT" [] k = "Right" -> "RIGHT"]

\* test_stratagems.py, MODIFIER_KEYS
MODIFIER_KEYS ==
  [k \in {"Control_L", "Control_R", "Alt_L", "Alt_R",
          "Shift_L", "Shift_R", "Super_L", "Super_R"} |->
     CASE k = "Control_L" -> "Left Ctrl" [] k = "Control_R" -> "Right Ctrl"
       [] k = "Alt_L" -> "Left Alt" [] k = "Alt_R" -> "Right Alt"
       [] k = "Shift_L" -> "Left Shift" [] k = "Shift_R" -> "Right Shift"
       [] k = "Super_L" -> "Left Super" [] k = "Super_R" -> "Right Super"]

\* test_stratagems.py, STATE_TO_MODIFIER, in the order of the dict; the state
\* of a key event is the set of the masks that are set
STATE_TO_MODIFIER == <<"Ctrl", "Alt", "Shift", "Super">>

\* the keys pressed in the validator window, and the modifier states they
\* are pressed with
Keyvals == {"Escape", "Control_L", "Alt_R", "Up", "Down", "Left", "a"}
States == {{}, {"Ctrl"}, {"Alt", "Shift"}}

\* longest sequence typed into the validator
MaxBuffer == 3

\* the dictionaries load_stratagems may return: the plugin's own file, one
\* where a sequence is the start of another and two entries are equal, and
\* one where more than five sequences start with the same key
Entry(name, seq) == [name |-> name, seq |-> seq]
FromFile == <<Entry("A", stratagems["A"]), Entry("B", stratagems["B"])>>
Overlapping ==
  <<Entry("Eagle", <<"UP", "DOWN">>),
    Entry("Orbital", <<"UP", "DOWN", "LEFT">>),
    Entry("Twin", <<"UP", "DOWN">>)>>
Crowded ==
  <<Entry("D1", <<"DOWN", "UP">>),
    Entry("D2", <<"DOWN", "DOWN">>),
    Entry("D3", <<"DOWN", "LEFT">>),
    Entry("D4", <<"DOWN", "LEFT", "LEFT">>),
    Entry("D5", <<"DOWN", "UP", "UP">>),
    Entry("D6", <<"DOWN", "UP", "DOWN">>)>>
Dictionaries == {FromFile, Overlapping, Crowded}

\* variant: the index is keyed by the sequence read backwards
RECURSIVE BuildLookupBackwards(_, _)
BuildLookupBackwards(d, n) ==
  IF n = 0 THEN [k \in {} |-> ""]
  ELSE LET f == BuildLookupBackwards(d, n - 1)
           key == [i \in 1..Len(d[n].seq) |-> d[n].seq[Len(d[n].seq) + 1 - i]]
       IN  [k \in DOMAIN f \cup {key} |->
              IF k = key THEN d[n].name ELSE f[k]]

\* variant: an entry does not replace the name stored for its sequence
RECURSIVE BuildLookupKeepsFirst(_, _)
BuildLookupKeepsFirst(d, n) ==
  IF n = 0 THEN [k \in {} |-> ""]
  ELSE LET f == BuildLookupKeepsFirst(d, n - 1)
       IN  [k \in DOMAIN f \cup {d[n].seq} |->
              IF k \in DOMAIN f THEN f[k] ELSE d[n].name]

\* lines 81-85: for name, sequence in stratagems.items():
\*                  self.sequence_lookup[tuple(sequence)] = name
RECURSIVE BuildLookup(_, _)
BuildLookup(d, n) ==
  IF n = 0 THEN [k \in {} |-> ""]
  ELSE LET f == BuildLookup(d, n - 1)
       IN  [k \in DOMAIN f \cup {d[n].seq} |->
              IF k = d[n].seq THEN d[n].name ELSE f[k]]

\* variant: the search stops at the first name found
RECURSIVE PartialMatchesFirstOnly(_, _, _)
PartialMatchesFirstOnly(d, cur, n) ==
  IF n = 0 THEN <<>>
  ELSE LET rest == PartialMatchesFirstOnly(d, cur, n - 1)
       IN  IF /\ rest = <<>>
              /\ Len(d[n].seq) >= Len(cur)
              /\ SubSeq(d[n].seq, 1, Len(cur)) = cur
             THEN <<d[n].name>>
             ELSE rest

\* lines 303-307: the names whose sequence starts with cur, in dict order
RECURSIVE PartialMatches(_, _, _)
PartialMatches(d, cur, n) ==
  IF n = 0 THEN <<>>
  ELSE LET rest == PartialMatches(d, cur, n - 1)
       IN  IF /\ Len(d[n].seq) >= Len(cur)
              /\ SubSeq(d[n].seq, 1, Len(cur)) = cur
             THEN Append(rest, d[n].name)
             ELSE rest

\* StratagemValidator.__init__, lines 67-85, and the labels of build_ui
StartValidator(d) ==
  /\ dictionary = d
  /\ sequence_lookup = BuildLookup(d, Len(d))
  /\ current_sequence = <<>>
  /\ validator_modifier_key = "None"
  /\ modifier_held = FALSE
  /\ modifier_pressed_at_start = FALSE
  /\ modifier_released_during = FALSE
  /\ keys_with_modifier = 0
  /\ keys_without_modifier = 0
  /\ result_label = <<"-">>
  /\ partial_label = <<>>
  /\ modifier_label = "None detected"
  /\ modifier_mode_label = <<>>
  /\ event = [type |-> "none", keyval |-> "none", state |-> {}]

Init ==
  /\ ui \in {"UInput", "None"}
  /\ executing = FALSE
  /\ hero_mode = FALSE
  /\ settings = NoSettings
  /\ stratagem \in {StratagemOf(id) : id \in StratagemIds}
  /\ custom_sequence \in SeqsUpTo(MaxLen)
  /\ pc = [b \in Buttons |-> "idle"]
  /\ sequence = [b \in Buttons |-> <<>>]
  /\ idx = [b \in Buttons |-> 0]
  /\ modifier_pressed = [b \in Buttons |-> FALSE]
  /\ key_delay = [b \in Buttons |-> 0]
  /\ modifier_key = [b \in Buttons |-> "unset"]
  /\ hold_modifier = [b \in Buttons |-> FALSE]
  /\ modifier_code = [b \in Buttons |-> 0]
  /\ out = [b \in Buttons |-> <<>>]
  /\ fault = [b \in Buttons |-> <<>>]
  /\ result = [b \in Buttons |-> "none"]
  /\ hero_seen = [b \in Buttons |-> <<>>]
  /\ sink = <<>>
  /\ calls = [b \in Buttons |-> 0]
  /\ cfg_seen = [b \in Buttons |-> {}]
  /\ writes = 0
  /\ StartValidator(<<>>)
  /\ NoUpdate

\* ------------------------------------------------------------- helpers
Goto(b, label) == pc' = [pc EXCEPT ![b] = label]

\* a device call that returns: the event reaches the device
Emit(b, e) == out' = [out EXCEPT ![b] = Append(@, e)]

\* an exception inside the try block: control moves to the finally block
Raise(b, kind) ==
  /\ fault' = [fault EXCEPT ![b] = Append(@, <<kind, pc[b], idx[b]>>)]
  /\ Goto(b, "finally")
  /\ UNCHANGED <<locals, out, result, hero_seen>>

\* on_key_down returns (or is left by an exception): its frame is gone
Return(b, how) ==
  /\ Goto(b, "idle")
  /\ result' = [result EXCEPT ![b] = how]
  /\ sequence' = [sequence EXCEPT ![b] = <<>>]
  /\ idx' = [idx EXCEPT ![b] = 0]
  /\ modifier_pressed' = [modifier_pressed EXCEPT ![b] = FALSE]
  /\ key_delay' = [key_delay EXCEPT ![b] = 0]
  /\ modifier_key' = [modifier_key EXCEPT ![b] = "unset"]
  /\ hold_modifier' = [hold_modifier EXCEPT ![b] = FALSE]
  /\ modifier_code' = [modifier_code EXCEPT ![b] = 0]
  /\ out' = [out EXCEPT ![b] = <<>>]
  /\ fault' = [fault EXCEPT ![b] = <<>>]
  /\ hero_seen' = [hero_seen EXCEPT ![b] = <<>>]

\* line 412 / 222: the for loop takes its first key, or is skipped
EnterLoop(b) ==
  IF Len(sequence[b]) >= 1
    THEN idx' = [idx EXCEPT ![b] = 1] /\ Goto(b, "key_press")
    ELSE UNCHANGED idx /\ Goto(b, "finally")

\* the sequence a button replays: self.stratagem or self.get_sequence()
TargetOf(b) == IF b = "stratagem" THEN stratagem ELSE custom_sequence

\* ------------------------------------------------ on_key_down, step by step
\* variant: the guard on a missing device is missing
KeyDownNoUiGuard(b) ==
  /\ pc[b] = "idle"
  /\ IF TargetOf(b) = <<>>
       THEN Return(b, "empty")
       ELSE /\ Goto(b, "check")
            /\ result' = [result EXCEPT ![b] = "running"]
            /\ sequence' = [sequence EXCEPT ![b] = TargetOf(b)]
            /\ UNCHANGED <<idx, modifier_pressed, key_delay, modifier_key,
                           hold_modifier, modifier_code, out, fault, hero_seen>>
  /\ UNCHANGED shared

\* variant: the guard on an empty sequence is missing
KeyDownNoEmptyGuard(b) ==
  /\ pc[b] = "idle"
  /\ IF ui = "None"
       THEN Return(b, "unavailable")
       ELSE /\ Goto(b, "check")
            /\ result' = [result EXCEPT ![b] = "running"]
            /\ sequence' = [sequence EXCEPT ![b] = TargetOf(b)]
            /\ UNCHANGED <<idx, modifier_pressed, key_delay, modifier_key,
                           hold_modifier, modifier_code, out, fault, hero_seen>>
  /\ UNCHANGED shared

\* lines 374-381 / 183-191: the two guards before the lock is looked at
KeyDown(b) ==
  /\ pc[b] = "idle"
  /\ IF ui = "None"
       THEN Return(b, "unavailable")
       ELSE IF TargetOf(b) = <<>>
         THEN Return(b, "empty")
         ELSE /\ Goto(b, "check")
              /\ result' = [result EXCEPT ![b] = "running"]
              /\ sequence' = [sequence EXCEPT ![b] = TargetOf(b)]
              /\ UNCHANGED <<idx, modifier_pressed, key_delay, modifier_key,
                             hold_modifier, modifier_code, out, fault, hero_seen>>
  /\ UNCHANGED shared

\* variant: the rejected call clears the flag on its way out
CheckExecutingClearsFlag(b) ==
  /\ pc[b] = "check"
  /\ IF executing
       THEN Return(b, "rejected") /\ executing' = FALSE
       ELSE /\ Goto(b, "set")
            /\ UNCHANGED <<executing, locals, out, fault, result, hero_seen>>
  /\ UNCHANGED <<ui, hero_mode, settings, stratagem, custom_sequence>>

\* lines 383-385 / 193-195: if self.plugin_base.executing: return
CheckExecuting(b) ==
  /\ pc[b] = "check"
  /\ IF executing
       THEN Return(b, "rejected")
       ELSE /\ Goto(b, "set")
            /\ UNCHANGED <<locals, out, fault, result, hero_seen>>
  /\ UNCHANGED shared

\* lines 387-388 / 197-198
SetExecuting(b) ==
  /\ pc[b] = "set"
  /\ executing' = TRUE
  /\ modifier_pressed' = [modifier_pressed EXCEPT ![b] = FALSE]
  /\ Goto(b, "get_key_delay")
  /\ UNCHANGED <<ui, hero_mode, settings, stratagem, custom_sequence,
                 sequence, idx, key_delay, modifier_key, hold_modifier,
                 modifier_code, out, fault, result, hero_seen>>

\* variant: the key delay is the built-in one, whatever is stored
GetKeyDelayBuiltIn(b) ==
  /\ pc[b] = "get_key_delay"
  /\ key_delay' = [key_delay EXCEPT ![b] = DEFAULT_KEY_DELAY]
  /\ Goto(b, "get_modifier_key")
  /\ UNCHANGED <<shared, sequence, idx, modifier_pressed, modifier_key,
                 hold_modifier, modifier_code, out, fault, result, hero_seen>>

\* line 391 / 201
GetKeyDelay(b) ==
  /\ pc[b] = "get_key_delay"
  /\ key_delay' = [key_delay EXCEPT ![b] = Setting("key_delay", DEFAULT_KEY_DELAY)]
  /\ Goto(b, "get_modifier_key")
  /\ UNCHANGED <<shared, sequence, idx, modifier_pressed, modifier_key,
                 hold_modifier, modifier_code, out, fault, result, hero_seen>>

\* line 392 / 202
GetModifierKey(b) ==
  /\ pc[b] = "get_modifier_key"
  /\ modifier_key' =
       [modifier_key EXCEPT ![b] = Setting("modifier_key", DEFAULT_MODIFIER_KEY)]
  /\ Goto(b, "get_hold_modifier")
  /\ UNCHANGED <<shared, sequence, idx, modifier_pressed, key_delay,
                 hold_modifier, modifier_code, out, fault, result, hero_seen>>

\* line 393 / 203
GetHoldModifier(b) ==
  /\ pc[b] = "get_hold_modifier"
  /\ hold_modifier' =
       [hold_modifier EXCEPT ![b] = Setting("hold_modifier", DEFAULT_HOLD_MODIFIER)]
  /\ Goto(b, "try")
  /\ UNCHANGED <<shared, sequence, idx, modifier_pressed, key_delay,
                 modifier_key, modifier_code, out, fault, result, hero_seen>>

\* variant: the modifier is pressed in hero mode too
TryIgnoresHero(b) ==
  /\ pc[b] = "try"
  /\ modifier_code' = [modifier_code EXCEPT ![b] = ModifierCode(modifier_key[b])]
  /\ Goto(b, "mod_press")
  /\ hero_seen' = [hero_seen EXCEPT ![b] = Append(@, hero_mode)]
  /\ UNCHANGED <<shared, sequence, idx, modifier_pressed, key_delay,
                 modifier_key, hold_modifier, out, fault, result>>

\* lines 398-400 / 208-210: if not hero_mode: modifier_code = ...
Try(b) ==
  /\ pc[b] = "try"
  /\ IF ~hero_mode
       THEN /\ modifier_code' =
                 [modifier_code EXCEPT ![b] = ModifierCode(modifier_key[b])]
            /\ Goto(b, "mod_press")
            /\ UNCHANGED idx
       ELSE /\ EnterLoop(b)
            /\ UNCHANGED modifier_code
  /\ hero_seen' = [hero_seen EXCEPT ![b] = Append(@, hero_mode)]
  /\ UNCHANGED <<shared, sequence, modifier_pressed, key_delay, modifier_key,
                 hold_modifier, out, fault, result>>

\* line 401 / 211: ui.write(EV_KEY, modifier_code, 1)
ModPress(b) ==
  /\ pc[b] = "mod_press"
  /\ \/ /\ Emit(b, Write(modifier_code[b], 1))
        /\ Goto(b, "mod_press_syn")
        /\ UNCHANGED <<locals, fault, result, hero_seen>>
     \/ Raise(b, "OSError")
  /\ UNCHANGED shared

\* lines 402-407 / 212-217: ui.syn(); sleep; modifier_pressed = True
ModPressSyn(b) ==
  /\ pc[b] = "mod_press_syn"
  /\ \/ /\ Emit(b, Syn)
        /\ modifier_pressed' = [modifier_pressed EXCEPT ![b] = TRUE]
        /\ IF ~hold_modifier[b]
             THEN Goto(b, "mod_release") /\ UNCHANGED idx
             ELSE EnterLoop(b)
        /\ UNCHANGED <<sequence, key_delay, modifier_key, hold_modifier,
                       modifier_code, fault, result, hero_seen>>
     \/ Raise(b, "OSError")
  /\ UNCHANGED shared

\* line 408 / 218: ui.write(EV_KEY, modifier_code, 0)
ModRelease(b) ==
  /\ pc[b] = "mod_release"
  /\ \/ /\ Emit(b, Write(modifier_code[b], 0))
        /\ Goto(b, "mod_release_syn")
        /\ UNCHANGED <<locals, fault, result, hero_seen>>
     \/ Raise(b, "OSError")
  /\ UNCHANGED shared

\* lines 409-410 / 219-220
ModReleaseSyn(b) ==
  /\ pc[b] = "mod_release_syn"
  /\ \/ /\ Emit(b, Syn)
        /\ EnterLoop(b)
        /\ UNCHANGED <<sequence, modifier_pressed, key_delay, modifier_key,
                       hold_modifier, modifier_code, fault, result, hero_seen>>
     \/ Raise(b, "OSError")
  /\ UNCHANGED shared

\* line 413 / 223: ui.write(EV_KEY, ecodes.ecodes[f"KEY_{key}"], 1)
KeyPress(b) ==
  /\ pc[b] = "key_press"
  /\ LET name == KeyName(sequence[b][idx[b]]) IN
     IF name \notin DOMAIN ecodes
       THEN Raise(b, "KeyError")
       ELSE \/ /\ Emit(b, Write(ecodes[name], 1))
               /\ Goto(b, "key_press_syn")
               /\ UNCHANGED <<locals, fault, result, hero_seen>>
            \/ Raise(b, "OSError")
  /\ UNCHANGED shared

\* variant: press and release are written into one frame, without a syn
KeyPressNoSyn(b) ==
  /\ pc[b] = "key_press_syn"
  /\ Goto(b, "key_release")
  /\ UNCHANGED <<shared, locals, out, fault, result, hero_seen>>

\* lines 414-415 / 224-225
KeyPressSyn(b) ==
  /\ pc[b] = "key_press_syn"
  /\ \/ /\ Emit(b, Syn)
        /\ Goto(b, "key_release")
        /\ UNCHANGED <<locals, fault, result, hero_seen>>
     \/ Raise(b, "OSError")
  /\ UNCHANGED shared

\* line 416 / 226: ui.write(EV_KEY, ecodes.ecodes[f"KEY_{key}"], 0)
KeyRelease(b) ==
  /\ pc[b] = "key_release"
  /\ \/ /\ Emit(b, Write(ecodes[KeyName(sequence[b][idx[b]])], 0))
        /\ Goto(b, "key_release_syn")
        /\ UNCHANGED <<locals, fault, result, hero_seen>>
     \/ Raise(b, "OSError")
  /\ UNCHANGED shared

\* lines 417-418 / 227-228, and the loop header of line 412 / 222
KeyReleaseSyn(b) ==
  /\ pc[b] = "key_release_syn"
  /\ \/ /\ Emit(b, Syn)
        /\ IF idx[b] < Len(sequence[b])
             THEN idx' = [idx EXCEPT ![b] = @ + 1] /\ Goto(b, "key_press")
             ELSE UNCHANGED idx /\ Goto(b, "finally")
        /\ UNCHANGED <<sequence, modifier_pressed, key_delay, modifier_key,
                       hold_modifier, modifier_code, fault, result, hero_seen>>
     \/ Raise(b, "OSError")
  /\ UNCHANGED shared

\* variant: the cleanup releases the modifier in the pulse variant too
FinallyIgnoresHold(b) ==
  /\ pc[b] = "finally"
  /\ IF modifier_pressed[b] /\ ~hero_mode
       THEN /\ modifier_code' =
                 [modifier_code EXCEPT ![b] = ModifierCode(modifier_key[b])]
            /\ Goto(b, "fin_release")
       ELSE /\ Goto(b, "unlock")
            /\ UNCHANGED modifier_code
  /\ hero_seen' = [hero_seen EXCEPT ![b] =
                     IF modifier_pressed[b] THEN Append(@, hero_mode) ELSE @]
  /\ UNCHANGED <<shared, sequence, idx, modifier_pressed, key_delay,
                 modifier_key, hold_modifier, out, fault, result>>

\* variant: the cleanup releases nothing
FinallyNoRelease(b) ==
  /\ pc[b] = "finally"
  /\ Goto(b, "unlock")
  /\ hero_seen' = [hero_seen EXCEPT ![b] =
                     IF modifier_pressed[b] /\ hold_modifier[b]
                       THEN Append(@, hero_mode) ELSE @]
  /\ UNCHANGED <<shared, locals, out, fault, result>>

\* variant: the cleanup looks the modifier key up in the settings again
FinallyRereadsSetting(b) ==
  /\ pc[b] = "finally"
  /\ IF modifier_pressed[b] /\ hold_modifier[b] /\ ~hero_mode
       THEN /\ modifier_code' =
                 [modifier_code EXCEPT ![b] =
                    ModifierCode(Setting("modifier_key", DEFAULT_MODIFIER_KEY))]
            /\ Goto(b, "fin_release")
       ELSE /\ Goto(b, "unlock")
            /\ UNCHANGED modifier_code
  /\ hero_seen' = [hero_seen EXCEPT ![b] =
                     IF modifier_pressed[b] /\ hold_modifier[b]
                       THEN Append(@, hero_mode) ELSE @]
  /\ UNCHANGED <<shared, sequence, idx, modifier_pressed, key_delay,
                 modifier_key, hold_modifier, out, fault, result>>

\* lines 423-424 / 233-234: the condition of the cleanup
Finally(b) ==
  /\ pc[b] = "finally"
  /\ IF modifier_pressed[b] /\ hold_modifier[b] /\ ~hero_mode
       THEN /\ modifier_code' =
                 [modifier_code EXCEPT ![b] = ModifierCode(modifier_key[b])]
            /\ Goto(b, "fin_release")
       ELSE /\ Goto(b, "unlock")
            /\ UNCHANGED modifier_code
  \* 'and' evaluates hero_mode only after the two locals are true
  /\ hero_seen' = [hero_seen EXCEPT ![b] =
                     IF modifier_pressed[b] /\ hold_modifier[b]
                       THEN Append(@, hero_mode) ELSE @]
  /\ UNCHANGED <<shared, sequence, idx, modifier_pressed, key_delay,
                 modifier_key, hold_modifier, out, fault, result>>

\* line 425 / 235; an exception here is not caught
FinRelease(b) ==
  /\ pc[b] = "fin_release"
  /\ \/ /\ Emit(b, Write(modifier_code[b], 0))
        /\ Goto(b, "fin_release_syn")
        /\ UNCHANGED <<locals, fault, result, hero_seen>>
     \/ Return(b, "raised")
  /\ UNCHANGED shared

\* lines 426-427 / 236-237; an exception here is not caught
FinReleaseSyn(b) ==
  /\ pc[b] = "fin_release_syn"
  /\ \/ /\ Emit(b, Syn)
        /\ Goto(b, "unlock")
        /\ UNCHANGED <<locals, fault, result, hero_seen>>
     \/ Return(b, "raised")
  /\ UNCHANGED shared

\* variant: a finished replay switches hero mode off
UnlockClearsHero(b) ==
  /\ pc[b] = "unlock"
  /\ executing' = FALSE
  /\ hero_mode' = FALSE
  /\ Return(b, IF fault[b] = <<>> THEN "done" ELSE "failed")
  /\ UNCHANGED <<ui, settings, stratagem, custom_sequence>>

\* line 428 / 238: self.plugin_base.executing = False
Unlock(b) ==
  /\ pc[b] = "unlock"
  /\ executing' = FALSE
  /\ Return(b, IF fault[b] = <<>> THEN "done" ELSE "failed")
  /\ UNCHANGED <<ui, hero_mode, settings, stratagem, custom_sequence>>

\* ------------------------------------------------------ the other handlers
\* StratagemHeroButton.on_key_down, line 45
\* variant: the hero button is ignored while a replay runs
HeroToggleWhenIdle ==
  /\ ~executing
  /\ hero_mode' = ~hero_mode
  /\ UNCHANGED <<ui, executing, settings, stratagem, custom_sequence,
                 pc, locals, out, fault, result, hero_seen>>

HeroToggle ==
  /\ hero_mode' = ~hero_mode
  /\ UNCHANGED <<ui, executing, settings, stratagem, custom_sequence,
                 pc, locals, out, fault, result, hero_seen>>

\* variant: only the keys the plugin reads are stored back
SaveSettingKnownOnly(key, value) ==
  /\ settings' =
       [k \in (DOMAIN settings \cap
                 {"key_delay", "modifier_key", "hold_modifier", "show_labels"})
              \cup {key} |->
          IF k = key THEN value ELSE settings[k]]
  /\ UNCHANGED <<ui, executing, hero_mode, stratagem, custom_sequence,
                 pc, locals, out, fault, result, hero_seen>>

\* HellDiversPlugin._save_setting, lines 534-538
SaveSetting(key, value) ==
  /\ settings' = [k \in DOMAIN settings \cup {key} |->
                    IF k = key THEN value ELSE settings[k]]
  /\ UNCHANGED <<ui, executing, hero_mode, stratagem, custom_sequence,
                 pc, locals, out, fault, result, hero_seen>>

\* _on_key_delay_changed, line 587
OnKeyDelayChanged == \E v \in KeyDelayChoices : SaveSetting("key_delay", v)

\* _on_modifier_key_changed, line 617
OnModifierKeyChanged ==
  \E v \in ModifierChoices : SaveSetting("modifier_key", v)

\* _on_hold_modifier_changed, line 636
OnHoldModifierChanged == \E v \in BOOLEAN : SaveSetting("hold_modifier", v)

Replay(b) ==
  \/ KeyDown(b) \/ CheckExecuting(b) \/ SetExecuting(b)
  \/ GetKeyDelay(b) \/ GetModifierKey(b) \/ GetHoldModifier(b)
  \/ Try(b) \/ ModPress(b) \/ ModPressSyn(b)
  \/ ModRelease(b) \/ ModReleaseSyn(b)
  \/ KeyPress(b) \/ KeyPressSyn(b) \/ KeyRelease(b) \/ KeyReleaseSyn(b)
  \/ Finally(b) \/ FinRelease(b) \/ FinReleaseSyn(b) \/ Unlock(b)

\* a step that is not recorded
Quiet == UNCHANGED <<observed, validator, updater>>

Next ==
  \/ \E b \in Buttons :
       \/ KeyDown(b) /\ Quiet
       \/ CheckExecuting(b) /\ Quiet
       \/ SetExecuting(b) /\ Quiet
       \/ GetKeyDelay(b) /\ Quiet
       \/ GetModifierKey(b) /\ Quiet
       \/ GetHoldModifier(b) /\ Quiet
       \/ Try(b) /\ Quiet
       \/ ModPress(b) /\ Quiet
       \/ ModPressSyn(b) /\ Quiet
       \/ ModRelease(b) /\ Quiet
       \/ ModReleaseSyn(b) /\ Quiet
       \/ KeyPress(b) /\ Quiet
       \/ KeyPressSyn(b) /\ Quiet
       \/ KeyRelease(b) /\ Quiet
       \/ KeyReleaseSyn(b) /\ Quiet
       \/ Finally(b) /\ Quiet
       \/ FinRelease(b) /\ Quiet
       \/ FinReleaseSyn(b) /\ Quiet
       \/ Unlock(b) /\ Quiet
  \/ HeroToggle /\ Quiet
  \/ OnHoldModifierChanged /\ Quiet

Spec == Init /\ [][Next]_vars

\* =====================================================================
\* The device's event stream over a whole run
\* =====================================================================

\* number of on_key_down calls in a recorded run
MaxCalls == 2

InitTrace == Init

\* self.plugin_base.ui.write / syn: the event b's call wrote in this step, if
\* any, is the next event of the device's stream; it starts a new run of the
\* stream unless the stream's last event is of the same call
Recorded(b) ==
  /\ sink' = IF /\ Len(out'[b]) > Len(out[b])
                /\ (sink = <<>> \/ sink[Len(sink)] # <<b, calls[b]>>)
               THEN Append(sink, <<b, calls[b]>>)
               ELSE sink
  /\ UNCHANGED <<calls, cfg_seen, writes, validator, updater>>

\* a key press of the deck: the host calls on_key_down
Pressed(b) ==
  /\ calls["stratagem"] + calls["custom"] < MaxCalls
  /\ calls' = [calls EXCEPT ![b] = @ + 1]
  /\ UNCHANGED <<sink, cfg_seen, writes, validator, updater>>

NextTrace ==
  \E b \in Buttons :
    \/ KeyDown(b) /\ Pressed(b)
    \/ CheckExecuting(b) /\ Recorded(b)
    \/ SetExecuting(b) /\ Recorded(b)
    \/ GetKeyDelay(b) /\ Recorded(b)
    \/ GetModifierKey(b) /\ Recorded(b)
    \/ GetHoldModifier(b) /\ Recorded(b)
    \/ Try(b) /\ Recorded(b)
    \/ ModPress(b) /\ Recorded(b)
    \/ ModPressSyn(b) /\ Recorded(b)
    \/ KeyPress(b) /\ Recorded(b)
    \/ KeyPressSyn(b) /\ Recorded(b)
    \/ KeyRelease(b) /\ Recorded(b)
    \/ KeyReleaseSyn(b) /\ Recorded(b)
    \/ Finally(b) /\ Recorded(b)
    \/ FinRelease(b) /\ Recorded(b)
    \/ FinReleaseSyn(b) /\ Recorded(b)
    \/ Unlock(b) /\ Recorded(b)

SpecTrace == InitTrace /\ [][NextTrace]_vars

\* =====================================================================
\* The stored settings: writes from the settings page while a button replays
\* =====================================================================

\* number of _save_setting calls in a run
MaxWrites == 2

\* values a caller of _save_setting("key_delay", value) may pass: the
\* function takes any value (hundredths of a second: 0 s, 1.01 s)
AnyKeyDelay == {0, 101}

\* the settings the host has stored when the plugin starts: none, a key the
\* plugin never reads, or a modifier key name evdev does not know
StoredSettings ==
  {NoSettings, [k \in {"legacy"} |-> 1],
   [k \in {"modifier_key"} |-> "KEY_HYPER"]}

\* the statements of on_key_down that read the settings, lines 391-393
ReadWindow == {"get_key_delay", "get_modifier_key", "get_hold_modifier"}

InitCfg ==
  /\ ui = "UInput"
  /\ executing = FALSE
  /\ hero_mode = FALSE
  /\ settings \in StoredSettings
  /\ stratagem = StratagemOf("A")
  /\ custom_sequence = <<>>
  /\ pc = [b \in Buttons |-> "idle"]
  /\ sequence = [b \in Buttons |-> <<>>]
  /\ idx = [b \in Buttons |-> 0]
  /\ modifier_pressed = [b \in Buttons |-> FALSE]
  /\ key_delay = [b \in Buttons |-> 0]
  /\ modifier_key = [b \in Buttons |-> "unset"]
  /\ hold_modifier = [b \in Buttons |-> FALSE]
  /\ modifier_code = [b \in Buttons |-> 0]
  /\ out = [b \in Buttons |-> <<>>]
  /\ fault = [b \in Buttons |-> <<>>]
  /\ result = [b \in Buttons |-> "none"]
  /\ hero_seen = [b \in Buttons |-> <<>>]
  /\ sink = <<>>
  /\ calls = [b \in Buttons |-> 0]
  /\ cfg_seen = [b \in Buttons |-> {}]
  /\ writes = 0
  /\ StartValidator(<<>>)
  /\ NoUpdate

\* a step of b's call: from line 391 until line 393 has run, the settings
\* states stored meanwhile are kept, starting with the one stored at line 391
Reading(b) ==
  /\ cfg_seen' = [cfg_seen EXCEPT ![b] =
                    IF pc'[b] \notin ReadWindow THEN {}
                    ELSE IF pc[b] \in ReadWindow THEN @
                    ELSE {settings}]
  /\ UNCHANGED <<sink, calls, writes, validator, updater>>

\* set_settings, line 538: a call that is reading its settings gets one more
\* stored state
Stored ==
  /\ writes < MaxWrites
  /\ writes' = writes + 1
  /\ cfg_seen' = [b \in Buttons |->
                    IF pc[b] \in ReadWindow
                      THEN cfg_seen[b] \cup {settings'}
                      ELSE cfg_seen[b]]
  /\ UNCHANGED <<sink, calls, validator, updater>>

\* _save_setting("key_delay", value) with a value no widget limits
SaveKeyDelay == \E v \in AnyKeyDelay : SaveSetting("key_delay", v)

NextCfg ==
  \/ \E b \in {"stratagem"} :
       \/ KeyDown(b) /\ Reading(b)
       \/ CheckExecuting(b) /\ Reading(b)
       \/ SetExecuting(b) /\ Reading(b)
       \/ GetKeyDelay(b) /\ Reading(b)
       \/ GetModifierKey(b) /\ Reading(b)
       \/ GetHoldModifier(b) /\ Reading(b)
       \/ Try(b) /\ Reading(b)
       \/ ModPress(b) /\ Reading(b)
       \/ ModPressSyn(b) /\ Reading(b)
       \/ ModRelease(b) /\ Reading(b)
       \/ ModReleaseSyn(b) /\ Reading(b)
       \/ KeyPress(b) /\ Reading(b)
       \/ KeyPressSyn(b) /\ Reading(b)
       \/ KeyRelease(b) /\ Reading(b)
       \/ KeyReleaseSyn(b) /\ Reading(b)
       \/ Finally(b) /\ Reading(b)
       \/ FinRelease(b) /\ Reading(b)
       \/ FinReleaseSyn(b) /\ Reading(b)
       \/ Unlock(b) /\ Reading(b)
  \/ OnKeyDelayChanged /\ Stored
  \/ OnModifierKeyChanged /\ Stored
  \/ OnHoldModifierChanged /\ Stored
  \/ SaveKeyDelay /\ Stored

SpecCfg == InitCfg /\ [][NextCfg]_vars

\* a call of on_key_down in flight runs its next statement: every device
\* call and every sleep returns or raises, and the sequence is finite
Running(b) == pc[b] # "idle" /\ Replay(b) /\ Reading(b)

\* the run of SpecCfg in which a call that was started is never suspended
\* for ever; when the button is pressed is left to the user
SpecLive == InitCfg /\ [][NextCfg]_vars /\ WF_vars(Running("stratagem"))

\* =====================================================================
\* The input validator (test_stratagems.py)
\* =====================================================================

\* everything of the plugin: the validator is a program of its own
plugin == <<shared, pc, locals, out, fault, result, hero_seen, observed>>

\* no handler of the plugin is running
HandlersIdle ==
  /\ pc = [b \in Buttons |-> "idle"]
  /\ sequence = [b \in Buttons |-> <<>>]
  /\ idx = [b \in Buttons |-> 0]
  /\ modifier_pressed = [b \in Buttons |-> FALSE]
  /\ key_delay = [b \in Buttons |-> 0]
  /\ modifier_key = [b \in Buttons |-> "unset"]
  /\ hold_modifier = [b \in Buttons |-> FALSE]
  /\ modifier_code = [b \in Buttons |-> 0]
  /\ out = [b \in Buttons |-> <<>>]
  /\ fault = [b \in Buttons |-> <<>>]
  /\ result = [b \in Buttons |-> "none"]
  /\ hero_seen = [b \in Buttons |-> <<>>]
  /\ sink = <<>>
  /\ calls = [b \in Buttons |-> 0]
  /\ cfg_seen = [b \in Buttons |-> {}]
  /\ writes = 0

\* main() of test_stratagems.py, lines 346-358: the window opens on a
\* non-empty dictionary
InitValidator ==
  /\ ui = "None"
  /\ executing = FALSE
  /\ hero_mode = FALSE
  /\ settings = NoSettings
  /\ stratagem = <<>>
  /\ custom_sequence = <<>>
  /\ HandlersIdle
  /\ \E d \in Dictionaries : StartValidator(d)
  /\ NoUpdate

\* is_modifier_active, lines 226-233
IsModifierActive(state) == state \cap {"Ctrl", "Alt", "Shift", "Super"} # {}

\* get_modifier_from_state, lines 235-240: the first mask of the dict that is set
RECURSIVE FirstModifier(_, _)
FirstModifier(state, i) ==
  IF i > Len(STATE_TO_MODIFIER) THEN "Unknown"
  ELSE IF STATE_TO_MODIFIER[i] \in state THEN STATE_TO_MODIFIER[i]
  ELSE FirstModifier(state, i + 1)

GetModifierFromState(state) == FirstModifier(state, 1)

\* update_display, lines 287-322: the texts of result_label and partial_label
\* for the sequence cur
UpdateDisplay(cur) ==
  LET exact_match == IF cur \in DOMAIN sequence_lookup
                       THEN sequence_lookup[cur] ELSE "None"
      partial_matches == PartialMatches(dictionary, cur, Len(dictionary))
  IN  IF exact_match # "None"
        THEN [result |-> <<"match", exact_match>>, partial |-> <<>>]
      ELSE IF partial_matches # <<>>
        THEN [result |-> <<"partial">>,
              partial |-> IF Len(partial_matches) <= 5
                            THEN <<"Possible", partial_matches>>
                            ELSE <<"count", Len(partial_matches)>>]
      ELSE [result |-> <<"nomatch">>, partial |-> <<>>]

\* variant: a release of the modifier during the sequence is not looked at
UpdateModifierDisplayIgnoresRelease(mk, cur, with, without, released) ==
  IF mk = "None"
    THEN [label |-> "None detected", mode |-> <<>>]
    ELSE [label |-> mk,
          mode |-> IF Len(cur) = 0 THEN <<"waiting">>
                   ELSE IF with = Len(cur) THEN <<"HELD entire">>
                   ELSE IF with = 0 THEN <<"PRESSED">>
                   ELSE IF without > 0 THEN <<"Mixed", with, without>>
                   ELSE <<"HELD">>]

\* update_modifier_display, lines 263-285: the texts of modifier_label and
\* modifier_mode_label
UpdateModifierDisplay(mk, cur, with, without, released) ==
  IF mk = "None"
    THEN [label |-> "None detected", mode |-> <<>>]
    ELSE [label |-> mk,
          mode |-> IF Len(cur) = 0 THEN <<"waiting">>
                   ELSE IF with = Len(cur) /\ ~released THEN <<"HELD entire">>
                   ELSE IF with = 0 THEN <<"PRESSED">>
                   ELSE IF without > 0 THEN <<"Mixed", with, without>>
                   ELSE <<"HELD">>]

\* variant: the two counters are not reset
ClearSequenceKeepsCounters ==
  /\ current_sequence' = <<>>
  /\ validator_modifier_key' = "None"
  /\ modifier_held' = FALSE
  /\ modifier_pressed_at_start' = FALSE
  /\ modifier_released_during' = FALSE
  /\ result_label' = <<"-">>
  /\ partial_label' = <<>>
  /\ modifier_label' = "None detected"
  /\ modifier_mode_label' = <<>>
  /\ UNCHANGED <<keys_with_modifier, keys_without_modifier>>

\* clear_sequence, lines 246-261
ClearSequence ==
  /\ current_sequence' = <<>>
  /\ validator_modifier_key' = "None"
  /\ modifier_held' = FALSE
  /\ modifier_pressed_at_start' = FALSE
  /\ modifier_released_during' = FALSE
  /\ keys_with_modifier' = 0
  /\ keys_without_modifier' = 0
  /\ result_label' = <<"-">>
  /\ partial_label' = <<>>
  /\ modifier_label' = "None detected"
  /\ modifier_mode_label' = <<>>

\* lines 189-195: a modifier key goes down
ModifierDown(keyval) ==
  LET first == validator_modifier_key = "None"
      mk == IF first THEN MODIFIER_KEYS[keyval] ELSE validator_modifier_key
      shown == UpdateModifierDisplay(mk, current_sequence, keys_with_modifier,
                                     keys_without_modifier,
                                     modifier_released_during)
  IN  /\ validator_modifier_key' = mk
      /\ modifier_pressed_at_start' =
           IF first THEN Len(current_sequence) = 0 ELSE modifier_pressed_at_start
      /\ modifier_label' = shown.label
      /\ modifier_mode_label' = shown.mode
      /\ UNCHANGED <<current_sequence, modifier_held, modifier_released_during,
                     keys_with_modifier, keys_without_modifier,
                     result_label, partial_label>>

\* variant: the sequence is looked at after the key was added to it
DirectionDownStartAfterAdd(direction, state) ==
  LET modifier_active == IsModifierActive(state)
      with == keys_with_modifier + (IF modifier_active THEN 1 ELSE 0)
      without == keys_without_modifier + (IF modifier_active THEN 0 ELSE 1)
      first == validator_modifier_key = "None" /\ modifier_active
      mk == IF first THEN GetModifierFromState(state)
            ELSE validator_modifier_key
      cur == Append(current_sequence, direction)
      text == UpdateDisplay(cur)
      shown == UpdateModifierDisplay(mk, cur, with, without,
                                     modifier_released_during)
  IN  /\ Len(current_sequence) < MaxBuffer
      /\ keys_with_modifier' = with
      /\ keys_without_modifier' = without
      /\ validator_modifier_key' = mk
      /\ modifier_pressed_at_start' =
           IF first THEN Len(cur) = 0 ELSE modifier_pressed_at_start
      /\ current_sequence' = cur
      /\ result_label' = text.result
      /\ partial_label' = text.partial
      /\ modifier_label' = shown.label
      /\ modifier_mode_label' = shown.mode
      /\ UNCHANGED <<modifier_held, modifier_released_during>>

\* variant: once a modifier was seen, an arrow key pressed without a
\* modifier is counted but not added to the sequence
DirectionDownNeedsModifier(direction, state) ==
  LET modifier_active == IsModifierActive(state)
      with == keys_with_modifier + (IF modifier_active THEN 1 ELSE 0)
      without == keys_without_modifier + (IF modifier_active THEN 0 ELSE 1)
      first == validator_modifier_key = "None" /\ modifier_active
      mk == IF first THEN GetModifierFromState(state)
            ELSE validator_modifier_key
      cur == IF validator_modifier_key # "None" /\ ~modifier_active
               THEN current_sequence
               ELSE Append(current_sequence, direction)
      text == UpdateDisplay(cur)
      shown == UpdateModifierDisplay(mk, cur, with, without,
                                     modifier_released_during)
  IN  /\ Len(current_sequence) < MaxBuffer
      /\ keys_with_modifier' = with
      /\ keys_without_modifier' = without
      /\ validator_modifier_key' = mk
      /\ modifier_pressed_at_start' =
           IF first THEN Len(current_sequence) = 0 ELSE modifier_pressed_at_start
      /\ current_sequence' = cur
      /\ result_label' = text.result
      /\ partial_label' = text.partial
      /\ modifier_label' = shown.label
      /\ modifier_mode_label' = shown.mode
      /\ UNCHANGED <<modifier_held, modifier_released_during>>

\* variant: every arrow key is counted as typed with the modifier
DirectionDownCountsWith(direction, state) ==
  LET modifier_active == IsModifierActive(state)
      with == keys_with_modifier + 1
      without == keys_without_modifier
      first == validator_modifier_key = "None" /\ modifier_active
      mk == IF first THEN GetModifierFromState(state)
            ELSE validator_modifier_key
      cur == Append(current_sequence, direction)
      text == UpdateDisplay(cur)
      shown == UpdateModifierDisplay(mk, cur, with, without,
                                     modifier_released_during)
  IN  /\ Len(current_sequence) < MaxBuffer
      /\ keys_with_modifier' = with
      /\ keys_without_modifier' = without
      /\ validator_modifier_key' = mk
      /\ modifier_pressed_at_start' =
           IF first THEN Len(current_sequence) = 0 ELSE modifier_pressed_at_start
      /\ current_sequence' = cur
      /\ result_label' = text.result
      /\ partial_label' = text.partial
      /\ modifier_label' = shown.label
      /\ modifier_mode_label' = shown.mode
      /\ UNCHANGED <<modifier_held, modifier_released_during>>

\* lines 198-214 and add_key, lines 242-244: an arrow key goes down
DirectionDown(direction, state) ==
  LET modifier_active == IsModifierActive(state)
      with == keys_with_modifier + (IF modifier_active THEN 1 ELSE 0)
      without == keys_without_modifier + (IF modifier_active THEN 0 ELSE 1)
      first == validator_modifier_key = "None" /\ modifier_active
      mk == IF first THEN GetModifierFromState(state)
            ELSE validator_modifier_key
      cur == Append(current_sequence, direction)
      text == UpdateDisplay(cur)
      shown == UpdateModifierDisplay(mk, cur, with, without,
                                     modifier_released_during)
  IN  /\ Len(current_sequence) < MaxBuffer
      /\ keys_with_modifier' = with
      /\ keys_without_modifier' = without
      /\ validator_modifier_key' = mk
      /\ modifier_pressed_at_start' =
           IF first THEN Len(current_sequence) = 0 ELSE modifier_pressed_at_start
      /\ current_sequence' = cur
      /\ result_label' = text.result
      /\ partial_label' = text.partial
      /\ modifier_label' = shown.label
      /\ modifier_mode_label' = shown.mode
      /\ UNCHANGED <<modifier_held, modifier_released_during>>

\* the fields and labels of the window stay as they are
SameWindow ==
  UNCHANGED <<current_sequence, validator_modifier_key, modifier_held,
              modifier_pressed_at_start, modifier_released_during,
              keys_with_modifier, keys_without_modifier, result_label,
              partial_label, modifier_label, modifier_mode_label>>

\* StratagemValidator.on_key_pressed, lines 182-216
OnKeyPressed(keyval, state) ==
  /\ event' = [type |-> "pressed", keyval |-> keyval, state |-> state]
  /\ IF keyval = "Escape" THEN ClearSequence
     ELSE IF keyval \in DOMAIN MODIFIER_KEYS THEN ModifierDown(keyval)
     ELSE IF keyval \in DOMAIN KEY_TO_DIRECTION
       THEN DirectionDown(KEY_TO_DIRECTION[keyval], state)
     ELSE SameWindow
  /\ UNCHANGED <<dictionary, sequence_lookup, plugin, updater>>

\* variant: the flag is set whether keys are typed or not
OnKeyReleasedAnyBuffer(keyval, state) ==
  /\ event' = [type |-> "released", keyval |-> keyval, state |-> state]
  /\ IF keyval \in DOMAIN MODIFIER_KEYS
       THEN LET shown == UpdateModifierDisplay(
                           validator_modifier_key, current_sequence,
                           keys_with_modifier, keys_without_modifier, TRUE)
            IN  /\ modifier_released_during' = TRUE
                /\ modifier_label' = shown.label
                /\ modifier_mode_label' = shown.mode
                /\ UNCHANGED <<current_sequence, validator_modifier_key,
                               modifier_held, modifier_pressed_at_start,
                               keys_with_modifier, keys_without_modifier,
                               result_label, partial_label>>
       ELSE SameWindow
  /\ UNCHANGED <<dictionary, sequence_lookup, plugin, updater>>

\* StratagemValidator.on_key_released, lines 218-224
OnKeyReleased(keyval, state) ==
  /\ event' = [type |-> "released", keyval |-> keyval, state |-> state]
  /\ IF keyval \in DOMAIN MODIFIER_KEYS
       THEN LET released == modifier_released_during
                              \/ Len(current_sequence) > 0
                shown == UpdateModifierDisplay(
                           validator_modifier_key, current_sequence,
                           keys_with_modifier, keys_without_modifier, released)
            IN  /\ modifier_released_during' = released
                /\ modifier_label' = shown.label
                /\ modifier_mode_label' = shown.mode
                /\ UNCHANGED <<current_sequence, validator_modifier_key,
                               modifier_held, modifier_pressed_at_start,
                               keys_with_modifier, keys_without_modifier,
                               result_label, partial_label>>
       ELSE SameWindow
  /\ UNCHANGED <<dictionary, sequence_lookup, plugin, updater>>

\* line 159: the Clear button
ClearClicked ==
  /\ event' = [type |-> "clicked", keyval |-> "Clear", state |-> {}]
  /\ ClearSequence
  /\ UNCHANGED <<dictionary, sequence_lookup, plugin, updater>>

\* the modifier states a key event is delivered with: the handlers look at
\* the state of an arrow key that goes down only
StatesOf(type, keyval) ==
  IF type = "pressed" /\ keyval \in DOMAIN KEY_TO_DIRECTION
    THEN States ELSE {{}}

NextValidator ==
  \/ \E keyval \in Keyvals :
       \E state \in StatesOf("pressed", keyval) : OnKeyPressed(keyval, state)
  \/ \E keyval \in Keyvals :
       \E state \in StatesOf("released", keyval) : OnKeyReleased(keyval, state)
  \/ ClearClicked

SpecValidator == InitValidator /\ [][NextValidator]_vars

\* =====================================================================
\* The check of the dictionary file (update/stratagems.py)
\* =====================================================================

\* number of entries of a checked file, and length of their sequences
MaxEntries == 2
MaxTokens == 2

\* the tokens of a checked file, and the keys of its entries in file order
Tokens == {"UP", "DOWN", "FOO"}
EntryKeys == <<"K1", "K2", "K3", "K4">>

SequencesUpTo(n) == UNION {[1..m -> Tokens] : m \in 0..n}
\* the file with the sequences f, in file order
FileOf(f, k) == [i \in 1..k |-> Entry(EntryKeys[i], f[i])]

\* lines 70-72: for i, direction in enumerate(sequence), up to position n
RECURSIVE DirectionErrors(_, _, _)
DirectionErrors(key, seq, n) ==
  IF n = 0 THEN <<>>
  ELSE LET rest == DirectionErrors(key, seq, n - 1)
       IN  IF seq[n] \notin {"UP", "DOWN", "LEFT", "RIGHT"}
             THEN Append(rest, [key |-> key, index |-> n - 1,
                                text |-> seq[n]])
             ELSE rest

\* variant: the check returns at the first entry with an error
RECURSIVE ValidateSequencesFirstEntry(_, _)
ValidateSequencesFirstEntry(d, n) ==
  IF n = 0 THEN <<>>
  ELSE LET rest == ValidateSequencesFirstEntry(d, n - 1)
       IN  IF rest # <<>> THEN rest
           ELSE IF d[n].seq = <<>>
             THEN <<[key |-> d[n].name, index |-> -1,
                     text |-> "Empty sequence"]>>
           ELSE DirectionErrors(d[n].name, d[n].seq, Len(d[n].seq))

\* validate_sequences, lines 53-74: the errors of the first n entries
RECURSIVE ValidateSequences(_, _)
ValidateSequences(d, n) ==
  IF n = 0 THEN <<>>
  ELSE LET rest == ValidateSequences(d, n - 1)
       IN  IF d[n].seq = <<>>
             THEN Append(rest, [key |-> d[n].name, index |-> -1,
                                text |-> "Empty sequence"])
             ELSE rest \o DirectionErrors(d[n].name, d[n].seq,
                                          Len(d[n].seq))

InitUpdate ==
  /\ ui = "None"
  /\ executing = FALSE
  /\ hero_mode = FALSE
  /\ settings = NoSettings
  /\ stratagem = <<>>
  /\ custom_sequence = <<>>
  /\ HandlersIdle
  /\ StartValidator(<<>>)
  /\ \E k \in 0..MaxEntries :
       \E f \in [1..k -> SequencesUpTo(MaxTokens)] :
         json_file = FileOf(f, k)
  /\ errors = <<>>
  /\ validated = FALSE

\* one call of validate_sequences on the file, lines 53-74
Validate ==
  /\ ~validated
  /\ errors' = ValidateSequences(json_file, Len(json_file))
  /\ validated' = TRUE
  /\ UNCHANGED <<json_file, plugin, validator>>

NextUpdate == Validate

SpecUpdate == InitUpdate /\ [][NextUpdate]_vars

\* =====================================================================
\* The sequence editor of the custom button (SequenceEditorRow)
\* =====================================================================

\* longest sequence entered in the editor
MaxEdit == 4

\* line 321: sequence.append(direction)
SequenceAppend(seq, direction) == Append(seq, direction)

\* variant: backspace removes the first token
SequencePopFirst(seq) ==
  IF seq # <<>> THEN Tail(seq) ELSE seq

\* lines 329-330: if sequence: sequence.pop()
SequencePop(seq) ==
  IF seq # <<>> THEN SubSeq(seq, 1, Len(seq) - 1) ELSE seq

\* the row is opened for a button that has no sequence stored
InitEditor ==
  /\ ui = "None"
  /\ executing = FALSE
  /\ hero_mode = FALSE
  /\ settings = NoSettings
  /\ stratagem = <<>>
  /\ custom_sequence = <<>>
  /\ HandlersIdle
  /\ StartValidator(<<>>)
  /\ NoUpdate

\* what a click in the editor leaves alone
EditorFrame ==
  UNCHANGED <<ui, executing, hero_mode, settings, stratagem, pc, locals, out,
              fault, result, hero_seen, observed, validator, updater>>

\* _on_direction_clicked, lines 318-324; the buttons are made from
\* DIRECTION_KEYS (lines 297-301)
OnDirectionClicked(direction) ==
  /\ Len(custom_sequence) < MaxEdit
  /\ custom_sequence' = SequenceAppend(custom_sequence, direction)
  /\ EditorFrame

\* _on_backspace, lines 326-334
OnBackspace ==
  /\ custom_sequence' = SequencePop(custom_sequence)
  /\ EditorFrame

\* _on_clear, lines 336-341
OnClear ==
  /\ custom_sequence' = <<>>
  /\ EditorFrame

NextEditor ==
  \/ \E direction \in DIRECTION_KEYS : OnDirectionClicked(direction)
  \/ OnBackspace
  \/ OnClear

SpecEditor == InitEditor /\ [][NextEditor]_vars

\* =====================================================================
\* Properties of the replay engine
\* =====================================================================

\* a handler between executing = True (line 387) and executing = False (428)
InReplay(b) == pc[b] \notin {"idle", "check", "set"}

\* the step in which button b leaves on_key_down through line 428
Unlocks(b) == pc[b] = "unlock" /\ pc'[b] = "idle"

\* every value of hero_mode the call has read is False / is True
HeroOff(b) ==
  hero_seen[b] # <<>> /\ \A i \in DOMAIN hero_seen[b] : ~hero_seen[b][i]
HeroOn(b) ==
  hero_seen[b] # <<>> /\ \A i \in DOMAIN hero_seen[b] : hero_seen[b][i]

DirCodes == {ecodes[KeyName(d)] : d \in DIRECTION_KEYS}
ModCodes == {ecodes[n] : n \in DOMAIN ecodes} \ DirCodes

Count(tr, e) == Cardinality({i \in DOMAIN tr : tr[i] = e})
IsPress(e) == e.op = "write" /\ e.value = 1
IsRelease(e) == e.op = "write" /\ e.value = 0
IsKeyWrite(e) == e.op = "write" /\ e.code \in DirCodes
IsModWrite(e) == e.op = "write" /\ e.code \in ModCodes

\* press, syn, release, syn of every direction of seq, in order
RECURSIVE KeyEvents(_)
KeyEvents(seq) ==
  IF seq = <<>> THEN <<>>
  ELSE LET c == ecodes[KeyName(Head(seq))] IN
       <<Write(c, 1), Syn, Write(c, 0), Syn>> \o KeyEvents(Tail(seq))

\* press and release of every direction of seq, in order, syncs left out
RECURSIVE KeyPairs(_)
KeyPairs(seq) ==
  IF seq = <<>> THEN <<>>
  ELSE LET c == ecodes[KeyName(Head(seq))] IN
       <<Write(c, 1), Write(c, 0)>> \o KeyPairs(Tail(seq))

\* every press in tr has a later release of the same code in tr
NoStuck(tr) ==
  \A i \in DOMAIN tr :
    IsPress(tr[i]) =>
      \E j \in (i + 1)..Len(tr) : IsRelease(tr[j]) /\ tr[j].code = tr[i].code

\* C1: at most one on_key_down call is between setting executing = True and
\* setting executing = False, whatever the interleaving of the handlers.
C1_MutualExclusion ==
  \A a, b \in Buttons : (InReplay(a) /\ InReplay(b)) => a = b

\* C2: a trigger that finds executing = True returns at once: it has written
\* nothing to the device, writes nothing, and leaves executing True.
C2_RejectedTriggerIsInert ==
  [][\A b \in Buttons :
       (pc[b] = "check" /\ executing /\ pc'[b] # "check")
         => /\ pc'[b] = "idle"
            /\ result'[b] = "rejected"
            /\ out[b] = <<>>
            /\ out'[b] = <<>>
            /\ executing']_vars

C2_Witness ==
  \E a, b \in Buttons :
    /\ a # b
    /\ pc[b] = "idle" /\ result[b] = "rejected"
    /\ InReplay(a) /\ out[a] # <<>>
    /\ executing

\* C3: whenever a replay that set executing = True leaves on_key_down,
\* executing is False, also when a device call of the cleanup raised.
C3_LockReleasedOnReturn ==
  [][\A b \in Buttons :
       (/\ InReplay(b) /\ pc'[b] = "idle"
        /\ Len(fault[b]) + (IF result'[b] = "raised" THEN 1 ELSE 0) <= 1)
         => ~executing']_vars

\* C4: when a replay returns after one device error in steps 2-3, every key
\* code that was written pressed has a later release written.
C4_NoKeyStuckAfterError ==
  [][\A b \in Buttons :
       (Unlocks(b) /\ Len(fault[b]) = 1 /\ fault[b][1][1] = "OSError")
         => NoStuck(out[b])]_vars

\* C5: hold variant, hero mode off, the press of the k-th direction raises:
\* the modifier release is written exactly once, the directional writes are
\* exactly the press/release pairs of keys 1..k-1 (so fewer than k presses
\* went through and nothing after key k is written), and executing ends False.
C5_CleanupOnPressFailure ==
  [][\A b \in Buttons : \A k \in 1..Len(sequence[b]) :
       (/\ Unlocks(b)
        /\ hold_modifier[b]
        /\ HeroOff(b)
        /\ fault[b] = << <<"OSError", "key_press", k>> >>)
         => /\ Count(out[b], Write(ModifierCode(modifier_key[b]), 0)) = 1
            /\ SelectSeq(out[b], IsKeyWrite)
                 = KeyPairs(SubSeq(sequence[b], 1, k - 1))
            /\ Len(SelectSeq(SelectSeq(out[b], IsKeyWrite), IsPress)) + 1 <= k
            /\ ~executing']_vars

C5_Witness ==
  \E b \in Buttons :
    /\ pc[b] = "unlock"
    /\ hold_modifier[b]
    /\ HeroOff(b)
    /\ Len(sequence[b]) >= 2
    /\ fault[b] = << <<"OSError", "key_press", 2>> >>

\* C6: a replay without error, hold variant, hero mode off, writes exactly
\* press(modifier), syn, then press, syn, release, syn per direction in
\* order, then release(modifier), syn: 4n+4 device calls.
C6_HoldTrace ==
  [][\A b \in Buttons :
       (Unlocks(b) /\ hold_modifier[b] /\ HeroOff(b) /\ fault[b] = <<>>)
         => LET m == ModifierCode(modifier_key[b]) IN
            /\ out[b] = <<Write(m, 1), Syn>> \o KeyEvents(sequence[b])
                          \o <<Write(m, 0), Syn>>
            /\ Len(out[b]) = 4 * Len(sequence[b]) + 4]_vars

C6_Witness ==
  \E b \in Buttons :
    /\ pc[b] = "unlock"
    /\ hold_modifier[b] /\ HeroOff(b) /\ fault[b] = <<>>
    /\ sequence[b] = <<"UP", "UP", "DOWN">>
    /\ Len(out[b]) = 16

\* C7: a replay without error, pulse variant, hero mode off, writes
\* press(modifier), syn, release(modifier), syn before the first direction
\* and no modifier event afterwards: one modifier release in the whole replay.
C7_PulseTrace ==
  [][\A b \in Buttons :
       (Unlocks(b) /\ ~hold_modifier[b] /\ HeroOff(b) /\ fault[b] = <<>>)
         => LET m == ModifierCode(modifier_key[b]) IN
            /\ out[b] = <<Write(m, 1), Syn, Write(m, 0), Syn>>
                          \o KeyEvents(sequence[b])
            /\ Count(out[b], Write(m, 0)) = 1
            /\ \A i \in 5..Len(out[b]) : ~IsModWrite(out[b][i])]_vars

C7_Witness ==
  \E b \in Buttons :
    /\ pc[b] = "unlock"
    /\ ~hold_modifier[b] /\ HeroOff(b) /\ fault[b] = <<>>
    /\ Len(sequence[b]) >= 2
    /\ Len(out[b]) = 4 * Len(sequence[b]) + 4

\* C8: a replay that reads hero_mode True writes no modifier event, for both
\* values of hold_modifier; without error it writes the 4n directional calls.
C8_HeroSkipsModifier ==
  [][\A b \in Buttons :
       (Unlocks(b) /\ HeroOn(b))
         => /\ \A i \in DOMAIN out[b] : ~IsModWrite(out[b][i])
            /\ fault[b] = <<>> => out[b] = KeyEvents(sequence[b])]_vars

C8_Witness ==
  \E b \in Buttons :
    /\ pc[b] = "unlock"
    /\ HeroOn(b) /\ hero_mode /\ fault[b] = <<>>
    /\ ~hold_modifier[b]
    /\ Len(out[b]) = 4 * Len(sequence[b])

\* C9: a hold-variant replay that wrote the modifier press has written the
\* modifier release when it sets executing back to False.
C9_ModifierReleasedIfPressed ==
  [][\A b \in Buttons :
       (Unlocks(b) /\ hold_modifier[b] /\ fault[b] = <<>>)
         => LET m == ModifierCode(modifier_key[b]) IN
            Count(out[b], Write(m, 1)) > 0 => Count(out[b], Write(m, 0)) > 0]_vars

\* C10: a trigger on a button whose sequence is empty ends inside the guards:
\* the handler never gets to the lock or the device, whether executing is
\* True or False, and the step leaves executing as it was.
C10_EmptySequenceIsInert ==
  [][\A b \in Buttons :
       (pc[b] = "idle" /\ TargetOf(b) = <<>>)
         => /\ pc'[b] = "idle"
            /\ out'[b] = <<>>
            /\ result'[b] # result[b] =>
                 /\ result'[b] \in {"empty", "unavailable"}
                 /\ executing' = executing]_vars

C10_Witness ==
  \E a, b \in Buttons :
    /\ a # b
    /\ TargetOf(b) = <<>>
    /\ pc[b] = "idle" /\ result[b] = "empty"
    /\ InReplay(a) /\ executing

\* C11: when the device could not be created (ui is None) every trigger on
\* either button ends in the first guard: no handler gets past it, nothing is
\* written, executing stays as it is, and the step of a trigger leaves
\* hero_mode and the settings alone, whatever the sequence and hero_mode are.
C11_UnavailableSinkIsInert ==
  [][ui = "None" =>
       /\ \A b \in Buttons : pc'[b] = "idle" /\ out'[b] = <<>>
       /\ executing' = executing
       /\ result' # result =>
            /\ \A b \in Buttons : result'[b] \in {"none", "unavailable"}
            /\ hero_mode' = hero_mode
            /\ settings' = settings]_vars

C11_Witness ==
  /\ ui = "None"
  /\ \A b \in Buttons : result[b] = "unavailable"
  /\ stratagem # <<>> /\ custom_sequence = <<>>
  /\ hero_mode
  /\ ~executing

\* C13: a step of on_key_down (accepted, rejected or failed) changes no
\* plugin-wide state other than executing: hero_mode, the stored settings,
\* the sequences of the buttons and the device handle stay as they were.
C13_ReplayTouchesOnlyLock ==
  [][(\E b \in Buttons : Replay(b))
       => /\ hero_mode' = hero_mode
          /\ settings' = settings
          /\ stratagem' = stratagem
          /\ custom_sequence' = custom_sequence
          /\ ui' = ui]_vars

C13_Witness ==
  \E a, b \in Buttons :
    /\ a # b
    /\ result[a] = "done" /\ result[b] = "rejected"
    /\ hero_mode
    /\ "hold_modifier" \in DOMAIN settings

\* C12: a rejected trigger is dropped, never queued: it wrote nothing and
\* writes nothing later, and the device's stream is the traces of the
\* accepted calls one after the other: all the events of one call are one
\* run of the stream, with no event of another call between them.
C12_DropNotQueue ==
  /\ \A b \in Buttons :
       result[b] = "rejected" =>
          \A i \in 1..Len(sink) : sink[i] # <<b, calls[b]>>
  /\ \A b \in Buttons :
       out[b] # <<>> => \E i \in 1..Len(sink) : sink[i] = <<b, calls[b]>>
  /\ \A i, k \in 1..Len(sink) : sink[i] = sink[k] => i = k

\* settings.get(key, default) on a stored settings state s
Stored_get(s, key, default) == IF key \in DOMAIN s THEN s[key] ELSE default

\* the step that ends line 393: b's call has read its three settings
ReadsDone(b) == pc[b] = "get_hold_modifier" /\ pc'[b] = "try"

\* b's call is past line 393 and stays in the handler
Replaying(b) == InReplay(b) /\ pc[b] \notin ReadWindow /\ pc'[b] # "idle"

\* C14: the settings are read by each call: each of key_delay, modifier_key
\* and hold_modifier a call uses is the value of a settings state stored
\* while that call read its settings (so a write that completed before the
\* call is used by it, and no value is kept from an earlier call), and once
\* the call has read them a later write does not change them.
C14_SettingsReadPerCall ==
  [][\A b \in Buttons :
       /\ ReadsDone(b) =>
            /\ \E s \in cfg_seen[b] : key_delay'[b] = Stored_get(s, "key_delay", 3)
            /\ \E s \in cfg_seen[b] :
                 modifier_key'[b] = Stored_get(s, "modifier_key", "KEY_LEFTCTRL")
            /\ \E s \in cfg_seen[b] :
                 hold_modifier'[b] = Stored_get(s, "hold_modifier", TRUE)
       /\ Replaying(b) =>
            /\ key_delay'[b] = key_delay[b]
            /\ modifier_key'[b] = modifier_key[b]
            /\ hold_modifier'[b] = hold_modifier[b]]_vars

\* a call that read a written key delay replays while the stored key delay
\* is no longer the one it uses
C14_Witness ==
  /\ pc["stratagem"] = "key_press"
  /\ key_delay["stratagem"] = 20
  /\ modifier_key["stratagem"] = "KEY_LEFTCTRL"
  /\ hold_modifier["stratagem"] = TRUE
  /\ Stored_get(settings, "key_delay", 3) = 1
  /\ writes = 2

C16_OneSnapshot ==
  [][\A b \in Buttons :
       ReadsDone(b) =>
         \E s \in cfg_seen[b] :
           /\ key_delay'[b] = Stored_get(s, "key_delay", 3)
           /\ modifier_key'[b] = Stored_get(s, "modifier_key", "KEY_LEFTCTRL")
           /\ hold_modifier'[b] = Stored_get(s, "hold_modifier", TRUE)]_vars

\* C17: a step that changes the stored settings changes the entry of one key
\* only: every other key, read by the plugin or not, is still stored with
\* the value it had.
C17_SaveTouchesOneKey ==
  [][settings' # settings =>
       \E key \in DOMAIN settings' :
         \A k \in (DOMAIN settings \cup DOMAIN settings') \ {key} :
           /\ k \in DOMAIN settings
           /\ k \in DOMAIN settings'
           /\ settings'[k] = settings[k]]_vars

\* two keys were written while a key the plugin never reads is still stored
C17_Witness ==
  /\ "legacy" \in DOMAIN settings /\ settings["legacy"] = 1
  /\ "key_delay" \in DOMAIN settings
  /\ "hold_modifier" \in DOMAIN settings
  /\ writes = 2

\* C18: reading a setting that was never written gives 0.03 s, left control
\* and hold; reading a written one gives the value written last.
C18_DefaultsUntilWritten ==
  [][\A b \in Buttons :
       /\ (pc[b] = "get_key_delay" /\ pc'[b] # pc[b]) =>
            key_delay'[b] = IF "key_delay" \in DOMAIN settings
                              THEN settings["key_delay"] ELSE 3
       /\ (pc[b] = "get_modifier_key" /\ pc'[b] # pc[b]) =>
            modifier_key'[b] = IF "modifier_key" \in DOMAIN settings
                                 THEN settings["modifier_key"]
                                 ELSE "KEY_LEFTCTRL"
       /\ (pc[b] = "get_hold_modifier" /\ pc'[b] # pc[b]) =>
            hold_modifier'[b] = IF "hold_modifier" \in DOMAIN settings
                                  THEN settings["hold_modifier"]
                                  ELSE TRUE]_vars

\* a call has read a never-written key delay and modifier key and a hold
\* flag that was written False
C18_Witness ==
  /\ pc["stratagem"] = "try"
  /\ DOMAIN settings = {"hold_modifier"}
  /\ settings["hold_modifier"] = FALSE
  /\ key_delay["stratagem"] = 3
  /\ modifier_key["stratagem"] = "KEY_LEFTCTRL"
  /\ hold_modifier["stratagem"] = FALSE

\* the step handled an arrow key that went down
DirectionEvent(d) ==
  /\ event'.type = "pressed"
  /\ event'.keyval \in DOMAIN KEY_TO_DIRECTION
  /\ KEY_TO_DIRECTION[event'.keyval] = d

\* the sequences of the dictionary
DictionarySequences == {dictionary[i].seq : i \in 1..Len(dictionary)}

\* s is the start of t
IsPrefix(s, t) == Len(s) <= Len(t) /\ SubSeq(t, 1, Len(s)) = s

\* C19: when an arrow key makes the typed sequence equal to a sequence of
\* the dictionary, the validator shows a match with an entry of that
\* sequence and the typed sequence is empty right after the call.
C19_ExactMatchResets ==
  [][\A d \in DIRECTION_KEYS :
       (DirectionEvent(d) /\
        Append(current_sequence, d) \in DictionarySequences)
       => /\ \E i \in 1..Len(dictionary) :
               /\ dictionary[i].seq = Append(current_sequence, d)
               /\ result_label' = <<"match", dictionary[i].name>>
          /\ current_sequence' = <<>>]_vars

\* C20: when an arrow key makes the typed sequence the start of no sequence
\* of the dictionary, the validator shows no match and, right after the
\* call, the typed sequence is empty and the modifier fields are as at start.
C20_NoMatchResets ==
  [][\A d \in DIRECTION_KEYS :
       (DirectionEvent(d) /\
        \A t \in DictionarySequences :
          ~IsPrefix(Append(current_sequence, d), t))
       => /\ result_label' = <<"nomatch">>
          /\ current_sequence' = <<>>
          /\ validator_modifier_key' = "None"
          /\ ~modifier_pressed_at_start'
          /\ ~modifier_released_during'
          /\ keys_with_modifier' = 0
          /\ keys_without_modifier' = 0]_vars

\* the names of the entries whose sequence starts with buf
StartingWith(buf) ==
  {dictionary[i].name : i \in {j \in 1..Len(dictionary) :
                                 IsPrefix(buf, dictionary[j].seq)}}

\* the names partial_label shows
NamesShown(label) ==
  IF Len(label) = 2 /\ label[1] = "Possible"
    THEN {label[2][i] : i \in 1..Len(label[2])}
    ELSE {}

\* the arrow key d makes the typed sequence the start of a dictionary
\* sequence without making it equal to one
PartialCase(d) ==
  /\ DirectionEvent(d)
  /\ Append(current_sequence, d) \notin DictionarySequences
  /\ StartingWith(Append(current_sequence, d)) # {}

\* C21 as stated: in that case the validator shows a partial match, the
\* names it shows are exactly the names whose sequence starts with the typed
\* sequence, and the typed sequence is kept.
C21_PartialNamesAll ==
  [][\A d \in DIRECTION_KEYS :
       PartialCase(d) =>
         /\ result_label' = <<"partial">>
         /\ NamesShown(partial_label') = StartingWith(Append(current_sequence, d))
         /\ current_sequence' = Append(current_sequence, d)]_vars

\* C21, amended: in that case the validator shows a partial match and keeps
\* the typed sequence; it shows exactly the names whose sequence starts with
\* the typed sequence when they are at most five, and only their number when
\* they are more.
C21_PartialNamesUpToFive ==
  [][\A d \in DIRECTION_KEYS :
       PartialCase(d) =>
         LET names == StartingWith(Append(current_sequence, d))
         IN  /\ result_label' = <<"partial">>
             /\ current_sequence' = Append(current_sequence, d)
             /\ IF Cardinality(names) <= 5
                  THEN /\ Len(partial_label') = 2
                       /\ partial_label'[1] = "Possible"
                       /\ Len(partial_label'[2]) = Cardinality(names)
                       /\ NamesShown(partial_label') = names
                  ELSE partial_label' = <<"count", Cardinality(names)>>]_vars

\* six names start with the typed key: only their number is shown
C21_Witness ==
  /\ current_sequence = <<"DOWN">>
  /\ result_label = <<"partial">>
  /\ partial_label = <<"count", 6>>

\* s is the start of t and shorter than t
IsStrictPrefix(s, t) == Len(s) < Len(t) /\ SubSeq(t, 1, Len(s)) = s

\* C22: when an arrow key makes the typed sequence equal to the sequence of
\* an entry and the start of a longer sequence of another entry, the
\* validator shows a match with an entry of the typed sequence; and no match
\* is ever shown for a sequence that has a dictionary sequence as its start:
\* the typed sequence never grows past a match.
C22_ExactTakesPrecedence ==
  [][\A d \in DIRECTION_KEYS :
       DirectionEvent(d) =>
         LET buf == Append(current_sequence, d)
         IN  /\ (/\ buf \in DictionarySequences
                 /\ \E t \in DictionarySequences : IsStrictPrefix(buf, t))
                => \E i \in 1..Len(dictionary) :
                     /\ dictionary[i].seq = buf
                     /\ result_label' = <<"match", dictionary[i].name>>
             /\ (\E t \in DictionarySequences : IsStrictPrefix(t, buf))
                => result_label'[1] # "match"]_vars

\* sequence_lookup.get(tuple(current_sequence)), line 294
Returned ==
  IF current_sequence \in DOMAIN sequence_lookup
    THEN sequence_lookup[current_sequence]
    ELSE "None"

\* C23 as stated: the index returns the name of an entry for the typed
\* sequence if and only if the sequence of that entry is the typed sequence,
\* key by key.
C23_LookupIffEqual ==
  \A i \in 1..Len(dictionary) :
    (Returned = dictionary[i].name) <=> (dictionary[i].seq = current_sequence)

\* C23, amended: the index returns the name of an entry for the typed
\* sequence if and only if the sequence of that entry is the typed sequence,
\* key by key, and no later entry of the dictionary has the same sequence;
\* the match shown for a typed sequence is the name the index returns.
C23_LookupIffLastEqual ==
  /\ \A i \in 1..Len(dictionary) :
       (Returned = dictionary[i].name) <=>
          /\ dictionary[i].seq = current_sequence
          /\ \A j \in (i + 1)..Len(dictionary) :
               dictionary[j].seq # current_sequence
  /\ current_sequence # <<>> =>
       \A i \in 1..Len(dictionary) :
         (result_label = <<"match", dictionary[i].name>>) <=>
            (Returned = dictionary[i].name)

\* the keys of a dictionary sequence typed in another order: no entry
C23_Witness ==
  /\ \E i \in 1..Len(dictionary) : dictionary[i].seq = <<"UP", "UP", "DOWN">>
  /\ current_sequence = <<"DOWN", "UP", "UP">>
  /\ Returned = "None"
  /\ result_label = <<"nomatch">>

\* the fields of the validator, and its fields and labels
fields == <<current_sequence, validator_modifier_key, modifier_held,
            modifier_pressed_at_start, modifier_released_during,
            keys_with_modifier, keys_without_modifier>>
window == <<fields, result_label, partial_label, modifier_label,
            modifier_mode_label>>

\* the values of the fields after __init__
AtStart == <<<<>>, "None", FALSE, FALSE, FALSE, 0, 0>>

\* the step handled Escape or a click on the Clear button
ResetEvent ==
  \/ event'.type = "pressed" /\ event'.keyval = "Escape"
  \/ event'.type = "clicked"

\* C24: Escape and the Clear button bring the validator to the state it
\* starts in, whatever its state: no typed key, no modifier, both flags
\* false, both counters 0; and on a validator that is in that state they
\* change nothing.
C24_ResetToInitial ==
  [][ResetEvent =>
       /\ fields' = AtStart
       /\ fields = AtStart => window' = window]_vars

\* the validator right after Escape
C24_Witness ==
  /\ event.type = "pressed" /\ event.keyval = "Escape"
  /\ fields = AtStart
  /\ result_label = <<"-">>

\* what the dictionary says of the sequence buf: a match with the last entry
\* of that sequence, a partial match, or no match
ResultFor(buf) ==
  IF buf \in DictionarySequences
    THEN LET last == CHOOSE i \in 1..Len(dictionary) :
                       /\ dictionary[i].seq = buf
                       /\ \A j \in (i + 1)..Len(dictionary) :
                            dictionary[j].seq # buf
         IN  <<"match", dictionary[last].name>>
  ELSE IF StartingWith(buf) # {} THEN <<"partial">>
  ELSE <<"nomatch">>

\* C25: the typed sequence and the result shown after an event depend on the
\* typed sequence before it, the dictionary, and the arrow key or reset of
\* the event only: an arrow key adds its direction and shows what the
\* dictionary says of the new sequence, whatever modifier is active or was
\* seen; a reset empties both; a modifier going down or up, or any other
\* key, changes neither.  Two streams of events with the same arrow keys and
\* resets therefore show the same results and hold the same sequences.
C25_MatchingIgnoresModifiers ==
  [][IF ResetEvent
       THEN current_sequence' = <<>> /\ result_label' = <<"-">>
     ELSE IF event'.type = "pressed" /\ event'.keyval \in DOMAIN KEY_TO_DIRECTION
       THEN /\ current_sequence' =
                 Append(current_sequence, KEY_TO_DIRECTION[event'.keyval])
            /\ result_label' = ResultFor(current_sequence')
     ELSE /\ current_sequence' = current_sequence
          /\ result_label' = result_label
          /\ partial_label' = partial_label]_vars

\* a match shown after keys pressed with and without a modifier, with a
\* modifier going down before and up during the sequence
C25_Witness ==
  /\ result_label = <<"match", "A">>
  /\ validator_modifier_key = "Left Ctrl"
  /\ modifier_released_during
  /\ keys_with_modifier = 1
  /\ keys_without_modifier = 2

\* a modifier was seen and keys are typed
Classified == validator_modifier_key # "None" /\ current_sequence # <<>>

\* every typed key was pressed with a modifier active
AllWithModifier == keys_with_modifier = Len(current_sequence)

\* C26 as stated: with keys typed and a modifier seen, the mode shown is HELD
\* exactly when every key was pressed with the modifier and the modifier was
\* not released during the sequence, PRESSED when no key was pressed with
\* it, and MIXED in every other case.
C26_ThreeModes ==
  Classified =>
    /\ (modifier_mode_label[1] \in {"HELD entire", "HELD"})
         <=> (AllWithModifier /\ ~modifier_released_during)
    /\ keys_with_modifier = 0 => modifier_mode_label = <<"PRESSED">>
    /\ (keys_with_modifier # 0 /\ ~(AllWithModifier /\ ~modifier_released_during))
         => modifier_mode_label[1] = "Mixed"

\* C26, amended: with keys typed and a modifier seen, the mode shown is "HELD
\* during entire sequence" exactly when every key was pressed with the
\* modifier and the modifier was not released during the sequence, PRESSED
\* exactly when no key was pressed with it, MIXED (with the two counters)
\* exactly when some keys were pressed with it and some without, and "HELD
\* during sequence" exactly when every key was pressed with it but a release
\* of the modifier was seen during the sequence.
C26_FourModes ==
  Classified =>
    modifier_mode_label =
      IF AllWithModifier /\ ~modifier_released_during THEN <<"HELD entire">>
      ELSE IF keys_with_modifier = 0 THEN <<"PRESSED">>
      ELSE IF ~AllWithModifier
        THEN <<"Mixed", keys_with_modifier,
               Len(current_sequence) - keys_with_modifier>>
      ELSE <<"HELD">>

\* every key pressed with the modifier, and a release seen between them
C26_Witness ==
  /\ Len(current_sequence) = 2
  /\ keys_with_modifier = 2
  /\ modifier_released_during
  /\ validator_modifier_key = "Left Ctrl"
  /\ modifier_mode_label = <<"HELD">>

\* the step handled a modifier key that went up
ModifierUp ==
  event'.type = "released" /\ event'.keyval \in DOMAIN MODIFIER_KEYS

\* C27: a modifier key going up sets modifier_released_during exactly when
\* keys are typed at that moment, and leaves it as it is when none is; no
\* other event sets the flag, and only a reset clears it.
C27_ReleaseTracking ==
  [][/\ ModifierUp =>
          modifier_released_during' =
            (modifier_released_during \/ current_sequence # <<>>)
     /\ (~modifier_released_during /\ modifier_released_during')
          => (ModifierUp /\ current_sequence # <<>>)
     /\ (modifier_released_during /\ ~modifier_released_during')
          => ResetEvent]_vars

\* the flag is set, and still set after a further arrow key
C27_Witness ==
  /\ modifier_released_during
  /\ Len(current_sequence) = 3
  /\ keys_with_modifier = 2
  /\ event.type = "pressed" /\ event.keyval = "Left"

\* the step handled a modifier key that went down
ModifierDownEvent ==
  event'.type = "pressed" /\ event'.keyval \in DOMAIN MODIFIER_KEYS

\* the step handled an arrow key that went down with a modifier active
DirectionWithModifier ==
  /\ event'.type = "pressed"
  /\ event'.keyval \in DOMAIN KEY_TO_DIRECTION
  /\ event'.state \cap {"Ctrl", "Alt", "Shift", "Super"} # {}

\* C28: the modifier and modifier_pressed_at_start are written only while no
\* modifier was seen since the last reset, by a modifier key going down or
\* by an arrow key pressed with a modifier active; modifier_pressed_at_start
\* is then true exactly when no key was typed before that event; until a
\* reset no later event changes either of them.
C28_FirstSeenTracking ==
  [][/\ (validator_modifier_key # "None" /\ ~ResetEvent)
          => /\ validator_modifier_key' = validator_modifier_key
             /\ modifier_pressed_at_start' = modifier_pressed_at_start
     /\ validator_modifier_key = "None"
          => IF ModifierDownEvent \/ DirectionWithModifier
               THEN /\ validator_modifier_key' # "None"
                    /\ modifier_pressed_at_start' = (current_sequence = <<>>)
               ELSE /\ validator_modifier_key' = "None"
                    /\ modifier_pressed_at_start' = modifier_pressed_at_start]_vars

\* the modifier was first seen on the first arrow key; a second key and a
\* modifier key going down later changed neither field
C28_Witness ==
  /\ validator_modifier_key = "Ctrl"
  /\ modifier_pressed_at_start
  /\ Len(current_sequence) = 2
  /\ event.type = "pressed" /\ event.keyval = "Alt_R"

\* the entries of the dictionary with a token that is no direction
InvalidEntries ==
  {i \in 1..Len(dictionary) :
     \E k \in 1..Len(dictionary[i].seq) :
       dictionary[i].seq[k] \notin DIRECTION_KEYS}

\* C30: an entry with a token that is no direction is never shown, neither
\* as the match nor among the names of a partial match.
C30_InvalidEntryNeverShown ==
  \A i \in InvalidEntries :
    /\ result_label # <<"match", dictionary[i].name>>
    /\ dictionary[i].name \notin NamesShown(partial_label)

\* the entries of the file with an empty sequence, and the positions of the
\* file with a token that is no direction
EmptyEntries == {i \in 1..Len(json_file) : json_file[i].seq = <<>>}
InvalidPositions ==
  {p \in (1..Len(json_file)) \X (1..MaxTokens + 1) :
     /\ p[2] <= Len(json_file[p[1]].seq)
     /\ json_file[p[1]].seq[p[2]] \notin DIRECTION_KEYS}

\* the places of the list e holds
Places(e) == {j \in 1..Len(errors) : errors[j] = e}

\* C29: validate_sequences returns one error for every entry with an empty
\* sequence and one for every position with a token that is no direction,
\* of every entry, and nothing else; the list is empty exactly when every
\* entry is a non-empty sequence of directions.
C29_AllErrorsListed ==
  validated =>
    /\ Len(errors) = Cardinality(EmptyEntries) + Cardinality(InvalidPositions)
    /\ \A i \in EmptyEntries :
         Cardinality(Places([key |-> json_file[i].name, index |-> -1,
                             text |-> "Empty sequence"])) = 1
    /\ \A p \in InvalidPositions :
         Cardinality(Places([key |-> json_file[p[1]].name, index |-> p[2] - 1,
                             text |-> json_file[p[1]].seq[p[2]]])) = 1
    /\ (errors = <<>>) <=>
         \A i \in 1..Len(json_file) :
           /\ json_file[i].seq # <<>>
           /\ \A k \in 1..Len(json_file[i].seq) :
                json_file[i].seq[k] \in DIRECTION_KEYS

\* an empty entry followed by an entry with two wrong tokens: three errors
C29_Witness ==
  /\ validated
  /\ Len(json_file) = 2
  /\ json_file[1].seq = <<>>
  /\ json_file[2].seq = <<"FOO", "FOO">>
  /\ Len(errors) = 3

\* C31: after every handled event the typed sequence is empty or the start
\* of, and shorter than, a sequence of the dictionary.
C31_BufferIsStrictPrefix ==
  \/ current_sequence = <<>>
  \/ \E t \in DictionarySequences : IsStrictPrefix(current_sequence, t)

\* C32: in the events a replay has sent to the device, every write of a key
\* press or release is followed at once by a sync, before any other write.
C32_WriteThenSyn ==
  \A b \in Buttons :
    \A i \in 1..(Len(out[b]) - 1) :
      out[b][i].op = "write" => out[b][i + 1] = Syn

\* C33: every device call returning or raising, whenever executing is True
\* it becomes False later, so that a later press of a button is accepted.
C33_LockEventuallyFree == executing ~> ~executing

\* the releases of a modifier key among the events tr
ModReleases(tr) ==
  SelectSeq(tr, LAMBDA e : IsModWrite(e) /\ IsRelease(e))

\* C34: a replay whose only exception is the missing key code of the token
\* at position i returns normally with executing False; it has written the
\* press/release pairs of the i-1 keys before and nothing of a later key,
\* and a modifier it pressed and held is released exactly once.
C34_InvalidTokenStopsReplay ==
  [][\A b \in Buttons : \A i \in 1..Len(sequence[b]) :
       (/\ Unlocks(b)
        /\ fault[b] = << <<"KeyError", "key_press", i>> >>)
         => /\ SelectSeq(out[b], IsKeyWrite)
                 = KeyPairs(SubSeq(sequence[b], 1, i - 1))
            /\ (modifier_pressed[b] /\ hold_modifier[b])
                 => Len(ModReleases(out[b])) = 1
            /\ result'[b] = "failed"
            /\ ~executing']_vars

\* the writes of a modifier key among the events tr
ModWrites(tr) == SelectSeq(tr, IsModWrite)

\* C35: all modifier writes of one call carry one key code, the code of the
\* modifier key name the call read at its start, whatever is stored in the
\* settings meanwhile; a name without a key code gives the code of left
\* control.
C35_OneModifierCode ==
  \A b \in Buttons :
    \A i \in DOMAIN ModWrites(out[b]) :
      /\ ModWrites(out[b])[i].code = ModWrites(out[b])[1].code
      /\ ModWrites(out[b])[i].code =
           IF modifier_key[b] \in DOMAIN ecodes
             THEN ecodes[modifier_key[b]]
             ELSE ecodes["KEY_LEFTCTRL"]

\* a call that read an unknown name has pressed and released left control
\* while the stored name was changed to left alt
C35_Witness ==
  /\ pc["stratagem"] = "unlock"
  /\ modifier_key["stratagem"] = "KEY_HYPER"
  /\ Setting("modifier_key", DEFAULT_MODIFIER_KEY) = "KEY_LEFTALT"
  /\ ModWrites(out["stratagem"]) =
       <<Write(ecodes["KEY_LEFTCTRL"], 1), Write(ecodes["KEY_LEFTCTRL"], 0)>>

\* C36: a step that changes hero_mode flips it and changes nothing else: no
\* event is written, executing and both calls of on_key_down are as before;
\* and the hero button can be pressed in every state, a replay in flight
\* or not.
C36_HeroToggleOnlyFlips ==
  /\ [][hero_mode' # hero_mode =>
          /\ hero_mode' = ~hero_mode
          /\ UNCHANGED <<ui, executing, settings, stratagem, custom_sequence,
                         pc, locals, out, fault, result, hero_seen, sink>>]_vars
  /\ [](ENABLED (HeroToggle /\ Quiet))

\* hero mode was off when the running call read it and is on now
C36_Witness ==
  \E b \in Buttons :
    /\ InReplay(b)
    /\ executing
    /\ hero_seen[b] = <<FALSE>>
    /\ hero_mode

\* C37: the two counters add up to the length of the typed sequence in every
\* state, and an arrow key going down adds one to keys_with_modifier when a
\* modifier is active in the state of the event, to keys_without_modifier
\* when none is, and leaves the other counter as it was.
C37_CountersMatchBuffer ==
  /\ [](keys_with_modifier + keys_without_modifier = Len(current_sequence))
  /\ [][(\E d \in DIRECTION_KEYS : DirectionEvent(d)) =>
          IF DirectionWithModifier
            THEN /\ keys_with_modifier' = keys_with_modifier + 1
                 /\ keys_without_modifier' = keys_without_modifier
            ELSE /\ keys_with_modifier' = keys_with_modifier
                 /\ keys_without_modifier' = keys_without_modifier + 1]_vars

\* two keys typed with a modifier active and one without
C37_Witness ==
  /\ keys_with_modifier = 2
  /\ keys_without_modifier = 1
  /\ Len(current_sequence) = 3

\* C38: the sequence stored by the editor holds directions only; a click
\* appends one direction at the end, removes the last token, or empties the
\* sequence; backspace after an added direction gives the sequence before,
\* and backspace on the empty sequence leaves it empty.
C38_EditorKeepsDirections ==
  /\ [](/\ \A i \in DOMAIN custom_sequence :
             custom_sequence[i] \in DIRECTION_KEYS
        /\ \A d \in DIRECTION_KEYS :
             /\ SequenceAppend(custom_sequence, d) = custom_sequence \o <<d>>
             /\ SequencePop(SequenceAppend(custom_sequence, d))
                  = custom_sequence
        /\ custom_sequence # <<>> =>
             SequencePop(custom_sequence)
               = [i \in 1..(Len(custom_sequence) - 1) |-> custom_sequence[i]]
        /\ custom_sequence = <<>> => SequencePop(custom_sequence) = <<>>)
  /\ [][\/ \E d \in DIRECTION_KEYS :
             custom_sequence' = custom_sequence \o <<d>>
        \/ /\ custom_sequence # <<>>
           /\ custom_sequence' =
                [i \in 1..(Len(custom_sequence) - 1) |-> custom_sequence[i]]
        \/ custom_sequence' = <<>>]_vars

\* three different directions were added in turn
C38_Witness == custom_sequence = <<"RIGHT", "UP", "LEFT">>

\* the place of the last entry of the dictionary with the sequence q
LastWith(q) ==
  CHOOSE i \in 1..Len(dictionary) :
    /\ dictionary[i].seq = q
    /\ \A j \in (i + 1)..Len(dictionary) : dictionary[j].seq # q

\* C39: the index holds exactly one name for every sequence of the
\* dictionary, the name of the last entry with that sequence; and a match
\* shown for the typed sequence is always that name, whatever was typed
\* before.
C39_IndexIsFunctionOfSequence ==
  /\ DOMAIN sequence_lookup = DictionarySequences
  /\ \A q \in DictionarySequences :
       sequence_lookup[q] = dictionary[LastWith(q)].name
  /\ result_label[1] = "match" =>
       /\ current_sequence \in DictionarySequences
       /\ result_label[2] = dictionary[LastWith(current_sequence)].name

\* Eagle and Twin have the typed sequence: Twin, the later one, is shown
C39_Witness ==
  /\ \E i, j \in 1..Len(dictionary) :
       /\ i < j
       /\ dictionary[i].seq = current_sequence
       /\ dictionary[j].seq = current_sequence
  /\ result_label = <<"match", "Twin">>
  /\ sequence_lookup[<<"UP", "DOWN">>] = "Twin"

====
